---- MODULE Spec2Model ----
(***************************************************************************)
(* Model of myskoda/models/info.py: the capability vocabulary, the         *)
(* forward-compatible capability decoder drop_unknown_capabilities, the    *)
(* Info aggregate with its queries, and the dict (wire) form of the        *)
(* records as their field declarations configure it.                       *)
(*                                                                         *)
(* Conventions of the model                                                *)
(*   - an Enum member is a record [name, value]; decoding looks a member   *)
(*     up by its value, encoding writes the member's value;                *)
(*   - a Python Optional (and a nullable wire value) is a sequence of      *)
(*     length 0 (None / null) or 1;                                        *)
(*   - the outcome of a call that may raise is a sequence of length 0 (it  *)
(*     raised, nothing was returned) or 1 (the returned value);            *)
(*   - a wire document is a function from wire keys to values, an absent   *)
(*     key is a key outside its DOMAIN.                                    *)
(***************************************************************************)
EXTENDS Integers, Sequences, FiniteSets, TLC

\* Bounds of the explored inputs.
MaxCaps == 2
MaxStatuses == 2
MaxRawStatuses == 1

(***************************************************************************)
(* Enumerations.  CapabilityId and CapabilityStatus are modelled by two    *)
(* members each of the closed sets of the source; the other enums are      *)
(* complete.                                                               *)
(***************************************************************************)
Member(n, v) == [name |-> n, value |-> v]

CHARGING == Member("CHARGING", "CHARGING")
ACCESS == Member("ACCESS", "ACCESS")
CapabilityId == {ACCESS, CHARGING}

LICENSE_EXPIRED == Member("LICENSE_EXPIRED", "LICENSE_EXPIRED")
INSUFFICIENT_BATTERY_LEVEL == Member("INSUFFICIENT_BATTERY_LEVEL", "INSUFFICIENT_BATTERY_LEVEL")
CapabilityStatus == {INSUFFICIENT_BATTERY_LEVEL, LICENSE_EXPIRED}

BodyType ==
    { Member("SUV", "SUV"), Member("SUV_COUPE", "SUV Coupe"),
      Member("COMBI", "Combi"), Member("LIFTBACK", "Liftback") }

VehicleState == { Member("ACTIVATED", "ACTIVATED") }

ErrorType == { Member("MISSING_RENDER", "MISSING_RENDER") }

\* `v in E` for an Enum class E and a plain value v: true iff v is the value
\* of a member (the containment check of lines 107 and 110, as Python 3.12
\* and later evaluate it for a value that is not a member object).
InEnum(E, v) == \E m \in E : m.value = v

\* E(v): the member whose value is v; callers guard with InEnum, since the
\* constructor raises ValueError otherwise.
EnumOf(E, v) == CHOOSE m \in E : m.value = v

(***************************************************************************)
(* Python helpers.                                                         *)
(***************************************************************************)
\* bool(x) of a list: a list is truthy iff it is not empty.
Truthy(list) == Len(list) > 0

\* any(bools): bools are the values of the generator expression, in order;
\* the scan stops at the first true one.
RECURSIVE PyAny(_)
PyAny(bools) ==
    IF bools = <<>> THEN FALSE
    ELSE IF Head(bools) THEN TRUE
    ELSE PyAny(Tail(bools))

\* A list built from elements whose construction may raise: outcomes are the
\* outcomes of the elements, in order; <<>> if one raised, else the
\* one-element sequence holding the list of their values.
RECURSIVE ListOrRaise(_)
ListOrRaise(outcomes) ==
    IF outcomes = <<>> THEN << <<>> >>
    ELSE IF Head(outcomes) = <<>> THEN <<>>
    ELSE LET t == ListOrRaise(Tail(outcomes))
         IN  IF t = <<>> THEN <<>> ELSE << <<Head(outcomes)[1]>> \o t[1] >>

\* repr() of a list of raw capability records, as the f-string of line 109
\* renders it: one rendering per record, in list order, each the record's
\* key/value pairs with every string quoted.
ReprStr(s) == <<"'", s, "'">>
ReprStrList(l) == [i \in 1..Len(l) |-> ReprStr(l[i])]
ReprDict(c) ==
    << <<"'id'", ReprStr(c.id)>>, <<"'statuses'", ReprStrList(c.statuses)>> >>
ReprDictList(l) == [i \in 1..Len(l) |-> ReprDict(l[i])]

\* date.fromisoformat / date.isoformat on the dates the documents carry.
DateTable ==
    { [iso |-> "2023-01-15", date |-> [year |-> 2023, month |-> 1, day |-> 15]] }
fromisoformat(s) ==
    IF \E e \in DateTable : e.iso = s
    THEN <<(CHOOSE e \in DateTable : e.iso = s).date>>
    ELSE <<>>
isoformat(d) == (CHOOSE e \in DateTable : e.date = d).iso

\* d.get(key): the nullable value under key, None when the key is absent.
Get(d, key) == IF key \in DOMAIN d THEN d[key] ELSE <<>>

(***************************************************************************)
(* Capability and the capability decoder.                                  *)
(***************************************************************************)
\* Mutant: a status outside the enum is skipped instead of raising.
Capability_from_dict_lenient(c) ==
    IF InEnum(CapabilityId, c.id)
    THEN LET known == SelectSeq(c.statuses, LAMBDA st : InEnum(CapabilityStatus, st))
         IN  <<[id |-> EnumOf(CapabilityId, c.id),
                statuses |-> [i \in 1..Len(known) |-> EnumOf(CapabilityStatus, known[i])]]>>
    ELSE <<>>

\* Capability.from_dict(c): id and every status are looked up in their
\* enum; a value outside the enum raises.
Capability_from_dict(c) ==
    IF /\ InEnum(CapabilityId, c.id)
       /\ \A i \in 1..Len(c.statuses) : InEnum(CapabilityStatus, c.statuses[i])
    THEN <<[id |-> EnumOf(CapabilityId, c.id),
            statuses |-> [i \in 1..Len(c.statuses) |->
                             EnumOf(CapabilityStatus, c.statuses[i])]]>>
    ELSE <<>>

Capability_to_dict(c) ==
    [id |-> c.id.value,
     statuses |-> [i \in 1..Len(c.statuses) |-> c.statuses[i].value]]

\* Mutant: only an expired license disables a capability.
is_available_unless_expired(self) ==
    \A i \in 1..Len(self.statuses) : self.statuses[i] # LICENSE_EXPIRED

\* Capability.is_available
is_available(self) == ~Truthy(self.statuses)

\* line 107: the records whose id is not a value of CapabilityId.
IsUnknownId(c) == ~InEnum(CapabilityId, c.id)
UnknownCapabilities(value) == SelectSeq(value, IsUnknownId)

\* lines 108-109: the diagnostics one call adds to the log.
LogRecord(unknown_caps) ==
    [level |-> "INFO",
     msg |-> <<"Dropping unknown capabilities: ", ReprDictList(unknown_caps)>>]

\* Mutant: one diagnostic for each dropped record.
LoggedEach(unknown_caps) ==
    [i \in 1..Len(unknown_caps) |-> LogRecord(<<unknown_caps[i]>>)]

Logged(unknown_caps) ==
    IF Truthy(unknown_caps) THEN <<LogRecord(unknown_caps)>> ELSE <<>>

IsKnownId(c) == InEnum(CapabilityId, c.id)

\* Mutant: every record is decoded, none is filtered out.
DecodeRetainedStrict(value) ==
    ListOrRaise([i \in 1..Len(value) |-> Capability_from_dict(value[i])])

\* line 110: decode the records whose id is a value of CapabilityId.
DecodeRetained(value) ==
    LET retained == SelectSeq(value, IsKnownId)
    IN  ListOrRaise([i \in 1..Len(retained) |-> Capability_from_dict(retained[i])])

\* drop_unknown_capabilities(value), the value it returns (<<>>: it raised).
drop_unknown_capabilities(value) == DecodeRetained(value)

\* Mutant: the diagnostic is written after the records are decoded.
StepsDecodeFirst == <<"partition", "decode", "log">>

\* The order in which one call runs lines 107, 108-109 and 110.
Steps == <<"partition", "log", "decode">>
StepAfter(s) ==
    LET i == CHOOSE k \in 1..Len(Steps) : Steps[k] = s
    IN  IF i < Len(Steps) THEN Steps[i + 1] ELSE "construct"

(***************************************************************************)
(* The records: from_dict reads every field under its alias (the field's   *)
(* name when it declares none), to_dict writes every field under its       *)
(* name, since no record sets serialize_by_alias.                          *)
(***************************************************************************)
Capabilities_from_dict(d) ==
    IF "capabilities" \notin DOMAIN d THEN <<>>
    ELSE LET r == drop_unknown_capabilities(d.capabilities)
         IN  IF r = <<>> THEN <<>> ELSE <<[capabilities |-> r[1]]>>

Capabilities_to_dict(c) ==
    [capabilities |-> [i \in 1..Len(c.capabilities) |->
                          Capability_to_dict(c.capabilities[i])]]

Battery_from_dict(d) ==
    IF "capacityInKWh" \in DOMAIN d THEN <<[capacity |-> d.capacityInKWh]>> ELSE <<>>

Battery_to_dict(b) == [capacity |-> b.capacity]

Engine_from_dict(d) ==
    IF {"type", "powerInKW"} \subseteq DOMAIN d
    THEN <<[type |-> d.type, power |-> d.powerInKW,
            capacity_in_liters |-> Get(d, "capacityInLiters")]>>
    ELSE <<>>

Engine_to_dict(e) ==
    [type |-> e.type, power |-> e.power, capacity_in_liters |-> e.capacity_in_liters]

OptBattery_from_dict(v) ==
    IF v = <<>> THEN << <<>> >>
    ELSE LET b == Battery_from_dict(v[1]) IN IF b = <<>> THEN <<>> ELSE << b >>

Specification_from_dict(d) ==
    IF ~({"body", "engine", "model", "title", "manufacturingDate", "modelYear",
          "systemCode", "systemModelId"} \subseteq DOMAIN d)
    THEN <<>>
    ELSE LET engine == Engine_from_dict(d.engine)
             manufacturing_date == fromisoformat(d.manufacturingDate)
             battery == OptBattery_from_dict(Get(d, "battery"))
         IN  IF \/ ~InEnum(BodyType, d.body)
                \/ engine = <<>>
                \/ manufacturing_date = <<>>
                \/ battery = <<>>
             THEN <<>>
             ELSE <<[body |-> EnumOf(BodyType, d.body),
                     engine |-> engine[1],
                     model |-> d.model,
                     title |-> d.title,
                     manufacturing_date |-> manufacturing_date[1],
                     model_year |-> d.modelYear,
                     system_code |-> d.systemCode,
                     system_model_id |-> d.systemModelId,
                     battery |-> battery[1],
                     max_charging_power |-> Get(d, "maxChargingPowerInKW"),
                     trim_level |-> Get(d, "trimLevel")]>>

Specification_to_dict(s) ==
    [body |-> s.body.value,
     engine |-> Engine_to_dict(s.engine),
     model |-> s.model,
     title |-> s.title,
     manufacturing_date |-> isoformat(s.manufacturing_date),
     model_year |-> s.model_year,
     system_code |-> s.system_code,
     system_model_id |-> s.system_model_id,
     battery |-> IF s.battery = <<>> THEN <<>> ELSE <<Battery_to_dict(s.battery[1])>>,
     max_charging_power |-> s.max_charging_power,
     trim_level |-> s.trim_level]

ServicePartner_from_dict(d) ==
    IF "servicePartnerId" \in DOMAIN d THEN <<[id |-> d.servicePartnerId]>> ELSE <<>>

ServicePartner_to_dict(p) == [id |-> p.id]

Error_from_dict(d) ==
    IF {"description", "type"} \subseteq DOMAIN d /\ InEnum(ErrorType, d.type)
    THEN <<[description |-> d.description, type |-> EnumOf(ErrorType, d.type)]>>
    ELSE <<>>

Error_to_dict(e) == [description |-> e.description, type |-> e.type.value]

OptErrors_from_dict(v) ==
    IF v = <<>> THEN << <<>> >>
    ELSE LET l == ListOrRaise([i \in 1..Len(v[1]) |-> Error_from_dict(v[1][i])])
         IN  IF l = <<>> THEN <<>> ELSE << l >>

\* Info.from_dict(d), given the outcome caps of decoding its capabilities.
Info_build(d, caps) ==
    IF ~({"state", "specification", "vin", "name", "capabilities", "devicePlatform",
          "servicePartner", "workshopModeEnabled"} \subseteq DOMAIN d)
    THEN <<>>
    ELSE LET specification == Specification_from_dict(d.specification)
             service_partner == ServicePartner_from_dict(d.servicePartner)
             errors == OptErrors_from_dict(Get(d, "errors"))
         IN  IF \/ ~InEnum(VehicleState, d.state)
                \/ specification = <<>>
                \/ caps = <<>>
                \/ service_partner = <<>>
                \/ errors = <<>>
             THEN <<>>
             ELSE <<[state |-> EnumOf(VehicleState, d.state),
                     specification |-> specification[1],
                     vin |-> d.vin,
                     name |-> d.name,
                     capabilities |-> caps[1],
                     device_platform |-> d.devicePlatform,
                     service_partner |-> service_partner[1],
                     workshop_mode_enabled |-> d.workshopModeEnabled,
                     software_version |-> Get(d, "softwareVersion"),
                     license_plate |-> Get(d, "licensePlate"),
                     errors |-> errors[1]]>>

Info_from_dict(d) ==
    Info_build(d, IF "capabilities" \in DOMAIN d
                  THEN Capabilities_from_dict(d.capabilities) ELSE <<>>)

Info_to_dict(self) ==
    [state |-> self.state.value,
     specification |-> Specification_to_dict(self.specification),
     vin |-> self.vin,
     name |-> self.name,
     capabilities |-> Capabilities_to_dict(self.capabilities),
     device_platform |-> self.device_platform,
     service_partner |-> ServicePartner_to_dict(self.service_partner),
     workshop_mode_enabled |-> self.workshop_mode_enabled,
     software_version |-> self.software_version,
     license_plate |-> self.license_plate,
     errors |-> IF self.errors = <<>> THEN <<>>
                ELSE << [i \in 1..Len(self.errors[1]) |->
                            Error_to_dict(self.errors[1][i])] >>]

(***************************************************************************)
(* The queries of Info.                                                    *)
(***************************************************************************)
\* Mutant: has_capability also asks for availability.
has_capability_usable(self, cap) ==
    LET Match(capability) == capability.id = cap /\ is_available(capability)
    IN  PyAny([i \in 1..Len(self.capabilities.capabilities) |->
                  Match(self.capabilities.capabilities[i])])

has_capability(self, cap) ==
    LET Match(capability) == capability.id = cap
    IN  PyAny([i \in 1..Len(self.capabilities.capabilities) |->
                  Match(self.capabilities.capabilities[i])])

\* Mutant: all-match, every entry of the id must be available.
is_capability_available_all(self, cap) ==
    /\ \E i \in 1..Len(self.capabilities.capabilities) :
          self.capabilities.capabilities[i].id = cap
    /\ \A i \in 1..Len(self.capabilities.capabilities) :
          self.capabilities.capabilities[i].id = cap
             => is_available(self.capabilities.capabilities[i])

\* Mutant: the id of the entry is not compared.
is_capability_available_any_id(self, cap) ==
    LET Match(capability) == is_available(capability)
    IN  PyAny([i \in 1..Len(self.capabilities.capabilities) |->
                  Match(self.capabilities.capabilities[i])])

is_capability_available(self, cap) ==
    LET Match(capability) == capability.id = cap /\ is_available(capability)
    IN  PyAny([i \in 1..Len(self.capabilities.capabilities) |->
                  Match(self.capabilities.capabilities[i])])

\* repr(engine), the dataclass rendering the f-string of line 226 embeds.
ReprEngine(e) ==
    <<"Engine(type=", ReprStr(e.type), ", power=", e.power,
      ", capacity_in_liters=", e.capacity_in_liters, ")">>

get_model_name(self) ==
    LET model == self.specification.model
        engine == self.specification.engine
        model_year == self.specification.model_year
        system_model_id == self.specification.system_model_id
    IN  <<model, " ", ReprEngine(engine), " ", model_year, " (", system_model_id, ")">>

(***************************************************************************)
(* Wire documents.                                                         *)
(***************************************************************************)
SeqsUpTo(S, n) == UNION { [1..k -> S] : k \in 0..n }

\* Wire ids and statuses: the values of the enum members, and one value
\* each that the enums do not know.
KnownWireIds == { m.value : m \in CapabilityId }
WireIds == KnownWireIds \cup {"TOTALLY_NEW_FEATURE"}
KnownWireStatuses == { m.value : m \in CapabilityStatus }
WireStatuses == {"LICENSE_EXPIRED", "NOT_A_STATUS"}
DecodedStatusLists == SeqsUpTo(CapabilityStatus, MaxStatuses)

\* Raw capability lists as the API may send them (any id, any status) ...
RawCapabilityLists ==
    SeqsUpTo([id : WireIds, statuses : SeqsUpTo(WireStatuses, MaxRawStatuses)], MaxCaps)
\* ... and the ones that hold known ids and known statuses only.
KnownCapabilityLists ==
    SeqsUpTo([id : KnownWireIds, statuses : SeqsUpTo(KnownWireStatuses, MaxStatuses)],
             MaxCaps)

\* The rest of the document: an electric vehicle with every optional field,
\* and a combustion vehicle with none but the engine's capacity.
ElectricDoc(raw) ==
    [state |-> "ACTIVATED",
     specification |->
        [body |-> "SUV Coupe",
         engine |-> [type |-> "iV", powerInKW |-> 150],
         model |-> "Enyaq", title |-> "Enyaq Coupe RS",
         manufacturingDate |-> "2023-01-15", modelYear |-> "2023",
         systemCode |-> "UNKNOWN", systemModelId |-> "5AZJJ2",
         battery |-> <<[capacityInKWh |-> 77]>>,
         maxChargingPowerInKW |-> <<135>>,
         trimLevel |-> <<"RS">>],
     vin |-> "TMBJC7NY0PF000001",
     name |-> "Car",
     capabilities |-> [capabilities |-> raw],
     devicePlatform |-> "MBB",
     servicePartner |-> [servicePartnerId |-> "DEU11111"],
     workshopModeEnabled |-> FALSE,
     softwareVersion |-> <<"3.2">>,
     licensePlate |-> <<"AB123CD">>,
     errors |-> << << [description |-> "render missing", type |-> "MISSING_RENDER"] >> >>]

CombustionDoc(raw) ==
    [state |-> "ACTIVATED",
     specification |->
        [body |-> "Combi",
         engine |-> [type |-> "diesel", powerInKW |-> 110, capacityInLiters |-> <<2>>],
         model |-> "Octavia", title |-> "Octavia Combi",
         manufacturingDate |-> "2023-01-15", modelYear |-> "2022",
         systemCode |-> "UNKNOWN", systemModelId |-> "NX5RRX"],
     vin |-> "TMBJR7NX5MY000002",
     name |-> "Bus",
     capabilities |-> [capabilities |-> raw],
     devicePlatform |-> "MBB_ODP",
     servicePartner |-> [servicePartnerId |-> "DEU22222"],
     workshopModeEnabled |-> TRUE]

Documents(lists) ==
    { ElectricDoc(raw) : raw \in lists } \cup { CombustionDoc(raw) : raw \in lists }

(***************************************************************************)
(* State.                                                                  *)
(***************************************************************************)
VARIABLES
    doc,                    \* the wire document being decoded
    pc,                     \* position of Info.from_dict and of its caller
    unknown_capabilities,   \* the local of drop_unknown_capabilities
    diagnostics,            \* the records _LOGGER.info was called with
    returned,               \* what drop_unknown_capabilities returned, if anything
    info,                   \* the decoded Info, if any
    encoded,                \* info.to_dict(), if taken
    redecoded,              \* Info.from_dict(encoded), if it returned
    lastQuery,              \* the last query made of info, with its argument
    lastResult              \* and what it returned

vars ==
    <<doc, pc, unknown_capabilities, diagnostics, returned, info, encoded, redecoded,
      lastQuery, lastResult>>

raw_capabilities == doc.capabilities.capabilities

(***************************************************************************)
(* Decoding one document: Info.from_dict(doc), with the three steps of     *)
(* drop_unknown_capabilities taken one at a time.                          *)
(***************************************************************************)
Init ==
    /\ doc \in Documents(RawCapabilityLists)
    /\ pc = Steps[1]
    /\ unknown_capabilities = <<>>
    /\ diagnostics = <<>>
    /\ returned = <<>>
    /\ info = <<>>
    /\ encoded = <<>>
    /\ redecoded = <<>>
    /\ lastQuery = <<>>
    /\ lastResult = <<>>

\* line 107
Partition ==
    /\ pc = "partition"
    /\ unknown_capabilities' = UnknownCapabilities(raw_capabilities)
    /\ pc' = StepAfter("partition")
    /\ UNCHANGED <<doc, diagnostics, returned, info, encoded, redecoded,
                   lastQuery, lastResult>>

\* lines 108-109
LogUnknown ==
    /\ pc = "log"
    /\ diagnostics' = diagnostics \o Logged(unknown_capabilities)
    /\ pc' = StepAfter("log")
    /\ UNCHANGED <<doc, unknown_capabilities, returned, info, encoded, redecoded,
                   lastQuery, lastResult>>

\* line 110: the list is returned, or the exception of a record that does not
\* decode leaves drop_unknown_capabilities and Info.from_dict.
Decode ==
    /\ pc = "decode"
    /\ LET r == DecodeRetained(raw_capabilities)
       IN  IF r = <<>>
           THEN pc' = "failed" /\ UNCHANGED returned
           ELSE pc' = StepAfter("decode") /\ returned' = r
    /\ UNCHANGED <<doc, unknown_capabilities, diagnostics, info, encoded, redecoded,
                   lastQuery, lastResult>>

\* The rest of Info.from_dict, around the returned capability list.
Construct ==
    /\ pc = "construct"
    /\ LET i == Info_build(doc, <<[capabilities |-> returned[1]]>>)
       IN  IF i = <<>>
           THEN pc' = "failed" /\ UNCHANGED info
           ELSE pc' = "done" /\ info' = i
    /\ UNCHANGED <<doc, unknown_capabilities, diagnostics, returned, encoded, redecoded,
                   lastQuery, lastResult>>

\* info.to_dict()
ToDict ==
    /\ pc = "done"
    /\ encoded' = <<Info_to_dict(info[1])>>
    /\ pc' = "encoded"
    /\ UNCHANGED <<doc, unknown_capabilities, diagnostics, returned, info, redecoded,
                   lastQuery, lastResult>>

\* Info.from_dict(encoded); the capabilities to_dict wrote all have known
\* ids, so this call logs nothing.
Redecode ==
    /\ pc = "encoded"
    /\ redecoded' = Info_from_dict(encoded[1])
    /\ pc' = "redecoded"
    /\ UNCHANGED <<doc, unknown_capabilities, diagnostics, returned, info, encoded,
                   lastQuery, lastResult>>

Next == Partition \/ LogUnknown \/ Decode \/ Construct \/ ToDict \/ Redecode

Spec == Init /\ [][Next]_vars

(***************************************************************************)
(* Querying one decoded snapshot.                                          *)
(***************************************************************************)
QueryInit ==
    /\ doc \in Documents(KnownCapabilityLists)
    /\ pc = "done"
    /\ unknown_capabilities = UnknownCapabilities(raw_capabilities)
    /\ diagnostics = Logged(unknown_capabilities)
    /\ returned = drop_unknown_capabilities(raw_capabilities)
    /\ info = Info_from_dict(doc)
    /\ encoded = <<>>
    /\ redecoded = <<>>
    /\ lastQuery = <<>>
    /\ lastResult = <<>>

\* Mutant: the scan consumes the entries it has looked at.
HasCapabilityCallConsuming(cap) ==
    /\ pc = "done"
    /\ lastQuery' = <<"has_capability", cap>>
    /\ lastResult' = <<has_capability(info[1], cap)>>
    /\ info' = <<[info[1] EXCEPT !.capabilities.capabilities = <<>>]>>
    /\ UNCHANGED <<doc, pc, unknown_capabilities, diagnostics, returned, encoded,
                   redecoded>>

HasCapabilityCall(cap) ==
    /\ pc = "done"
    /\ lastQuery' = <<"has_capability", cap>>
    /\ lastResult' = <<has_capability(info[1], cap)>>
    /\ UNCHANGED <<doc, pc, unknown_capabilities, diagnostics, returned, info, encoded,
                   redecoded>>

IsCapabilityAvailableCall(cap) ==
    /\ pc = "done"
    /\ lastQuery' = <<"is_capability_available", cap>>
    /\ lastResult' = <<is_capability_available(info[1], cap)>>
    /\ UNCHANGED <<doc, pc, unknown_capabilities, diagnostics, returned, info, encoded,
                   redecoded>>

GetModelNameCall ==
    /\ pc = "done"
    /\ lastQuery' = <<"get_model_name">>
    /\ lastResult' = <<get_model_name(info[1])>>
    /\ UNCHANGED <<doc, pc, unknown_capabilities, diagnostics, returned, info, encoded,
                   redecoded>>

QueryNext ==
    \/ \E cap \in CapabilityId : HasCapabilityCall(cap)
    \/ \E cap \in CapabilityId : IsCapabilityAvailableCall(cap)
    \/ GetModelNameCall

QuerySpec == QueryInit /\ [][QueryNext]_vars

(***************************************************************************)
(* Vocabulary of the properties: the input described by positions, not by  *)
(* the scans the code makes.                                               *)
(***************************************************************************)
KnownIdx == { i \in 1..Len(raw_capabilities) : raw_capabilities[i].id \in KnownWireIds }
UnknownIdx == (1..Len(raw_capabilities)) \ KnownIdx

\* The k-th smallest position of the set I.
Nth(I, k) == CHOOSE i \in I : Cardinality({ j \in I : j <= i }) = k

\* The raw records at the positions I, in input order.
RawAt(I) == [k \in 1..Cardinality(I) |-> raw_capabilities[Nth(I, k)]]

\* Position i holds a known id and a status the enum does not know.
MalformedAt(i) ==
    /\ i \in KnownIdx
    /\ \E j \in 1..Len(raw_capabilities[i].statuses) :
          raw_capabilities[i].statuses[j] \notin KnownWireStatuses
Malformed == \E i \in 1..Len(raw_capabilities) : MalformedAt(i)

\* capability is the decoded form of the raw record c.
DecodedFrom(capability, c) ==
    /\ capability.id \in CapabilityId
    /\ capability.id.value = c.id
    /\ Len(capability.statuses) = Len(c.statuses)
    /\ \A j \in 1..Len(c.statuses) :
          /\ capability.statuses[j] \in CapabilityStatus
          /\ capability.statuses[j].value = c.statuses[j]

\* list is the decoded form of the known-id records, in input order.
KnownDecodedInOrder(list) ==
    /\ Len(list) = Cardinality(KnownIdx)
    /\ \A k \in 1..Len(list) : DecodedFrom(list[k], raw_capabilities[Nth(KnownIdx, k)])

capabilities == info[1].capabilities.capabilities

Asked(op) == Len(lastQuery) >= 1 /\ lastQuery[1] = op

\* The snapshot with the statuses of entry i replaced by sl.
WithStatuses(self, i, sl) == [self EXCEPT !.capabilities.capabilities[i].statuses = sl]

(***************************************************************************)
(* Properties.                                                             *)
(***************************************************************************)

\* C1: is_capability_available(id) is true iff some entry of the capability
\* collection has that id and an empty status list (any-match: one free entry
\* among several entries of the same id is enough); the answer a call returns
\* is that value.
C1_AvailableIffSomeFreeEntry ==
    info # <<>> =>
        /\ \A cap \in CapabilityId :
              is_capability_available(info[1], cap)
                 <=> \E i \in 1..Len(capabilities) :
                        capabilities[i].id = cap /\ Len(capabilities[i].statuses) = 0
        /\ Asked("is_capability_available") =>
              lastResult[1]
                 <=> \E i \in 1..Len(capabilities) :
                        /\ capabilities[i].id = lastQuery[2]
                        /\ Len(capabilities[i].statuses) = 0

\* C1 witness: the same id twice, once with and once without statuses, and
\* the query answered true.
C1_Witness ==
    /\ Asked("is_capability_available")
    /\ lastResult[1]
    /\ \E i, j \in 1..Len(capabilities) :
          /\ capabilities[i].id = lastQuery[2]
          /\ capabilities[j].id = lastQuery[2]
          /\ capabilities[i].statuses # <<>>
          /\ capabilities[j].statuses = <<>>

\* C2: has_capability(id) is true iff id is the id of some entry, and the
\* answer is the same whatever status list any entry is given.
C2_HasIffIdPresent ==
    info # <<>> =>
        /\ \A cap \in CapabilityId :
              has_capability(info[1], cap)
                 <=> cap \in { capabilities[i].id : i \in 1..Len(capabilities) }
        /\ Asked("has_capability") =>
              /\ lastResult[1]
                    <=> lastQuery[2] \in { capabilities[i].id : i \in 1..Len(capabilities) }
              /\ \A i \in 1..Len(capabilities) : \A sl \in DecodedStatusLists :
                    has_capability(WithStatuses(info[1], i, sl), lastQuery[2])
                       <=> lastResult[1]

\* C2 witness: has_capability answered true for an id whose entries all
\* carry statuses.
C2_Witness ==
    /\ Asked("has_capability")
    /\ lastResult[1]
    /\ \A i \in 1..Len(capabilities) :
          capabilities[i].id = lastQuery[2] => Len(capabilities[i].statuses) = 2

\* C3: is_capability_available(id) implies has_capability(id).
C3_AvailableImpliesHas ==
    info # <<>> =>
        \A cap \in CapabilityId :
            is_capability_available(info[1], cap) => has_capability(info[1], cap)

\* C3 witness (the converse fails): is_capability_available answered false
\* for an id the vehicle has.
C3_Witness ==
    /\ Asked("is_capability_available")
    /\ ~lastResult[1]
    /\ has_capability(info[1], lastQuery[2])

\* C4: when every known-id record carries known statuses only, the decoder
\* does not fail and returns exactly the known-id records, decoded, in input
\* order and with duplicates kept (none at all when every id is unknown);
\* that list is the capability collection of the Info.
C4_KnownRecordsDecodedInOrder ==
    (~Malformed /\ pc \notin {"partition", "log", "decode"}) =>
        /\ pc # "failed"
        /\ returned # <<>>
        /\ KnownDecodedInOrder(returned[1])
        /\ KnownIdx = {} => returned[1] = <<>>
        /\ info # <<>> => capabilities = returned[1]

\* C4 witness: two records of the same id and different statuses after an
\* unknown-free decode, both kept.
C4_Witness ==
    /\ pc = "done"
    /\ Len(raw_capabilities) = 2
    /\ raw_capabilities[1].id = raw_capabilities[2].id
    /\ raw_capabilities[1].statuses # raw_capabilities[2].statuses
    /\ Len(capabilities) = 2

\* C5: once the log step of a call has run, the call has emitted exactly one
\* diagnostic if some record has an unknown id, and none otherwise; the
\* diagnostic renders exactly the unknown-id records, in input order.
C5_OneDiagnosticListingDropped ==
    /\ pc \in {"partition", "log"} => diagnostics = <<>>
    /\ pc \notin {"partition", "log"} =>
          diagnostics =
             IF UnknownIdx = {} THEN <<>>
             ELSE <<[level |-> "INFO",
                     msg |-> <<"Dropping unknown capabilities: ",
                               ReprDictList(RawAt(UnknownIdx))>>]>>

\* C5 witness: two unknown records, one diagnostic.
C5_Witness ==
    /\ pc = "done"
    /\ Cardinality(UnknownIdx) = 2
    /\ Len(diagnostics) = 1

\* C6: with an unknown status inside a known-id record, nothing is ever
\* returned: no capability list, no Info, and the call ends failed.
C6_MalformedStatusFailsWhole ==
    Malformed =>
        /\ returned = <<>>
        /\ info = <<>>
        /\ pc \in {"partition", "log", "decode", "failed"}

\* C6 witness: the call failed on a document that also holds a well-formed
\* known record.
C6_Witness ==
    /\ pc = "failed"
    /\ \E i, j \in KnownIdx : MalformedAt(i) /\ ~MalformedAt(j)

\* C7: is_available is true iff the status sequence is empty.
C7_AvailableIffNoStatus ==
    info # <<>> =>
        \A i \in 1..Len(capabilities) :
            is_available(capabilities[i]) <=> Len(capabilities[i].statuses) = 0

\* C7 witness: the same two statuses in both orders, and a query answered
\* unavailable.
C7_Witness ==
    /\ Asked("is_capability_available")
    /\ ~lastResult[1]
    /\ Len(capabilities) = 2
    /\ capabilities[1].statuses = <<LICENSE_EXPIRED, INSUFFICIENT_BATTERY_LEVEL>>
    /\ capabilities[2].statuses = <<INSUFFICIENT_BATTERY_LEVEL, LICENSE_EXPIRED>>

\* C8: decoding the encoding of a decoded Info succeeds and yields an equal
\* Info.
C8_RoundTrip == pc = "redecoded" => redecoded = info

\* C9: a query changes no field of the snapshot, and a query repeated with
\* the same argument returns what it returned before.
C9_QueriesReadOnly ==
    [][/\ info' = info
       /\ doc' = doc
       /\ lastQuery' = lastQuery => lastResult' = lastResult]_vars

\* C9 witness: a query has been answered on a snapshot with capabilities.
C9_Witness ==
    /\ Asked("get_model_name")
    /\ Len(capabilities) = 2

\* C10: the diagnostic is emitted before any record is decoded: when the
\* decode step is about to run nothing is returned yet and the diagnostic of
\* the unknown records is out, and it is still there when the call fails.
C10_DiagnosticBeforeDecode ==
    /\ pc = "decode" =>
          /\ returned = <<>>
          /\ UnknownIdx # {} => Len(diagnostics) = 1
    /\ (pc = "failed" /\ UnknownIdx # {}) =>
          /\ Len(diagnostics) = 1
          /\ returned = <<>>
          /\ info = <<>>

\* C10 witness: a failed call on an unknown-id record and a malformed known
\* record, with the diagnostic emitted.
C10_Witness ==
    /\ pc = "failed"
    /\ UnknownIdx # {}
    /\ Malformed
    /\ Len(diagnostics) = 1

====
